---- MODULE Spec2Model ----
(***************************************************************************)
(* BugBout (src/bugbout.py): the branch-tree overworld, the Player's       *)
(* discrete movement rule, the combat session and the three-state game     *)
(* state machine, as a state machine over the run loop of Game.run.        *)
(*                                                                         *)
(* One step of the model is either the handling of one KEYDOWN event by    *)
(* Game.handle_events (which handles any number of queued events per       *)
(* frame, one after the other) or the Game.update call that ends the       *)
(* frame.  Game.draw only reads the state.  Fields that only draw() reads  *)
(* (CombatBug.bug_type, CombatBug.flash_timer, Game.combat_message,        *)
(* Game.player_x_pos) are not part of the state below.                     *)
(***************************************************************************)
EXTENDS Integers, Sequences, FiniteSets, TLC

\* ------------------------------------------------------------ constants

VIRTUAL_HEIGHT == 144

STATE_OVERWORLD == 0
STATE_COMBAT == 1
STATE_COMBAT_RESULT == 2

DIR_UP == 1
DIR_RIGHT == 2
DIR_DOWN == 3
DIR_LEFT == 4

TOOL_NET == 0
TOOL_JAR == 1
TOOL_MAGNIFIER == 2

\* The keys of pygame the handler looks at, and one key it has no branch for.
Keys == {"K_UP", "K_DOWN", "K_LEFT", "K_RIGHT", "K_x", "K_z"}

\* range(6) of initialize_combat
NumBugs == 6
\* self.move_cooldown = 15 of Player.move
MoveCooldown == 15
\* self.flash_timer = 5 of Player.move
MoveFlash == 5
\* self.combat_animation_timer = 60 of initialize_combat
CombatAnimation == 60
\* abs(child.end_y - self.current_branch.end_y) < 5 of Player.move
HorizontalThreshold == 5

\* ------------------------------------------------------------ bounds

\* combat sessions (initialize_combat calls) a run is followed through; the
\* game itself allows any number, and total_bugs_caught grows without bound
MaxSessions == 1
\* the outcomes of the six random.randint(0, 2) draws of a session are numbered
\* 0 .. 3^6 - 1 (draw i is digit i of the number in base 3); the model follows
\* the outcomes 0 .. MaxDraw
MaxDraw == 2
\* children the root of a tree of Worlds is given
MaxChildren == 2

\* ------------------------------------------------------------ the tree

\* No Location: Branch.location = None
NoLocation ==
  [exists |-> FALSE, name |-> "", visited |-> FALSE, completed |-> FALSE,
   bugs_caught |-> 0]

\* Location.__init__ (its x, y are the owning branch's end point)
Location(name) ==
  [exists |-> TRUE, name |-> name, visited |-> FALSE, completed |-> FALSE,
   bugs_caught |-> 0]

\* Branch.__init__; a branch is named by its index in the world, parent 0 is
\* None, children holds the indices of the child branches in declared order.
Branch(start_x, start_y, end_x, end_y, parent) ==
  [start_x |-> start_x, start_y |-> start_y, end_x |-> end_x, end_y |-> end_y,
   parent |-> parent, children |-> <<>>, location |-> NoLocation]

\* nodes with the end point first
nodes_end_first(b) == <<<<b.end_x, b.end_y>>, <<b.start_x, b.start_y>>>>

\* Branch.generate_nodes
nodes(b) == << <<b.start_x, b.start_y>>, <<b.end_x, b.end_y>> >>

\* Branch.add_child on branch p of world w: the child starts at p's end
add_child(w, p, end_x, end_y) ==
  LET child == Branch(w[p].end_x, w[p].end_y, end_x, end_y, p)
      id == Len(w) + 1
  IN  Append([w EXCEPT ![p].children = Append(@, id)], child)

\* Branch.add_location on branch b of world w
add_location(w, b, name) == [w EXCEPT ![b].location = Location(name)]

\* Game.create_world: 1 root, 2 fork1, 3 up_branch1, 4 down_branch1, 5 fork2,
\* 6 up_branch2, 7 down_branch2
create_world ==
  LET center_y == VIRTUAL_HEIGHT \div 2
      w1 == add_location(<<Branch(20, center_y, 60, center_y, 0)>>, 1, "Tutorial")
      w2 == add_child(w1, 1, 80, center_y)
      w3 == add_location(add_child(w2, 2, 100, center_y - 25), 3, "Forest")
      w4 == add_location(add_child(w3, 2, 100, center_y + 25), 4, "Pond")
      w5 == add_child(w4, 2, 120, center_y)
      w6 == add_location(add_child(w5, 5, 140, center_y - 25), 6, "Mountain")
      w7 == add_location(add_child(w6, 5, 140, center_y + 25), 7, "Cave")
  IN  w7

\* ------------------------------------------------------------ state

VARIABLES
  world,                  \* the branches with their locations (root is world[1])
  state,                  \* Game.state
  x, y,                   \* Player.x, Player.y
  current_branch,         \* Player.current_branch (index into world)
  node_index,             \* Player.node_index
  selected_location,      \* Player.selected_location: owning branch, 0 is None
  move_cooldown,          \* Player.move_cooldown
  flash_timer,            \* Player.flash_timer
  combat_bugs,            \* Game.combat_bugs: sequence of [vulnerable_to]
  current_bug_index,      \* Game.current_bug_index (0-based)
  selected_tool,          \* Game.selected_tool
  combat_attempts,        \* Game.combat_attempts
  bugs_caught_session,    \* Game.bugs_caught_session
  total_bugs_caught,      \* Game.total_bugs_caught
  combat_animation_timer, \* Game.combat_animation_timer
  sessions                \* number of initialize_combat calls so far

player == <<x, y, current_branch, node_index, selected_location,
            move_cooldown, flash_timer>>
combat == <<combat_bugs, current_bug_index, selected_tool, combat_attempts,
            bugs_caught_session, combat_animation_timer>>
vars == <<world, state, player, combat, total_bugs_caught, sessions>>

\* ------------------------------------------------------------ Player

Abs(n) == IF n < 0 THEN -n ELSE n

\* The navigator fields Player.move and Player.set_branch write
Nav == [x |-> x, y |-> y, current_branch |-> current_branch,
        node_index |-> node_index, move_cooldown |-> move_cooldown,
        flash_timer |-> flash_timer]

\* Player.set_branch applied to navigator record n
set_branch(n, branch, idx) ==
  LET n1 == [n EXCEPT !.current_branch = branch, !.node_index = idx]
  IN  IF idx < Len(nodes(world[branch]))
      THEN [n1 EXCEPT !.x = nodes(world[branch])[idx + 1][1],
                      !.y = nodes(world[branch])[idx + 1][2]]
      ELSE n1

\* FirstChild without the early return: the last passing child wins
LastChild(hits) ==
  IF hits = {} THEN 0 ELSE CHOOSE i \in hits : \A j \in hits : i >= j

\* The first of the indices hits of children that pass a test, in declared
\* order, 0 if there is none: the early return of the for loops of Player.move
FirstChild(hits) ==
  IF hits = {} THEN 0 ELSE CHOOSE i \in hits : \A j \in hits : i <= j

\* VerticalMatch reading y as growing upwards
VerticalMatchYUp(direction, c) ==
  \/ direction = DIR_UP /\ world[c].end_y > world[c].start_y
  \/ direction = DIR_DOWN /\ world[c].end_y < world[c].start_y

\* for child in children: UP takes a child with end_y < start_y, DOWN one with
\* end_y > start_y
VerticalMatch(direction, c) ==
  \/ direction = DIR_UP /\ world[c].end_y < world[c].start_y
  \/ direction = DIR_DOWN /\ world[c].end_y > world[c].start_y

\* HorizontalMatch without abs(): every child ending higher passes as well
HorizontalMatchSigned(c) ==
  world[c].end_y - world[current_branch].end_y < HorizontalThreshold

\* the "roughly horizontal" test of the continuation loop
HorizontalMatch(c) ==
  Abs(world[c].end_y - world[current_branch].end_y) < HorizontalThreshold

\* Arm with the flash only: the move leaves the cooldown as it was
ArmFlashOnly(n) == [n EXCEPT !.flash_timer = MoveFlash]

\* the cooldown and feedback a successful move arms
Arm(n) == [n EXCEPT !.move_cooldown = MoveCooldown, !.flash_timer = MoveFlash]

\* Gate with the "not" of "not ... visited" dropped
GateNegationDropped(b) == world[b].location.exists /\ world[b].location.visited

\* the gate of the horizontal continuation: a location not yet visited
Gate(b) == world[b].location.exists /\ ~world[b].location.visited

\* rejected, with the feedback flash armed on a refused move as well
rejectedWithFlash == [ok |-> FALSE, nav |-> [Nav EXCEPT !.flash_timer = MoveFlash]]

\* "return False" of Player.move: nothing is written
rejected == [ok |-> FALSE, nav |-> Nav]

\* "return True" of Player.move, after the cooldown and the flash are armed
accepted(n) == [ok |-> TRUE, nav |-> Arm(n)]

\* along with the coordinates taken from the node the player already stands on
along_stale_coordinates(idx) ==
  accepted([Nav EXCEPT !.node_index = idx,
                       !.x = nodes(world[current_branch])[node_index + 1][1],
                       !.y = nodes(world[current_branch])[node_index + 1][2]])

\* Player.move, moving along the current branch: jump to node idx of it
along(idx) ==
  accepted([Nav EXCEPT !.node_index = idx,
                       !.x = nodes(world[current_branch])[idx + 1][1],
                       !.y = nodes(world[current_branch])[idx + 1][2]])

\* to_parent entering the parent at its start, as a child is entered
to_parent_at_start(direction) ==
  IF direction = DIR_LEFT /\ node_index = 0 /\ world[current_branch].parent # 0
  THEN accepted(set_branch(Nav, world[current_branch].parent, 0))
  ELSE rejected

\* Player.move, "check if we can go back to parent branch"
to_parent(direction) ==
  IF direction = DIR_LEFT /\ node_index = 0 /\ world[current_branch].parent # 0
  THEN accepted(set_branch(Nav, world[current_branch].parent, 1))
  ELSE rejected

\* Player.move(direction): [ok |-> the return value, nav |-> the fields after]
move(direction) ==
  LET b == world[current_branch]
      vert == FirstChild({i \in 1..Len(b.children) :
                            VerticalMatch(direction, b.children[i])})
      horiz == FirstChild({i \in 1..Len(b.children) :
                             HorizontalMatch(b.children[i])})
      toParent == to_parent(direction)
  IN  IF move_cooldown > 0 THEN rejected
      ELSE IF current_branch = 0 THEN rejected
      ELSE IF direction = DIR_RIGHT /\ node_index = 0 THEN along(1)
      ELSE IF direction = DIR_LEFT /\ node_index = 1 THEN along(0)
      ELSE IF node_index = 1 /\ vert # 0
        THEN accepted(set_branch(Nav, b.children[vert], 0))
      ELSE IF node_index = 1 /\ direction = DIR_RIGHT
        THEN IF Gate(current_branch) THEN rejected
             ELSE IF horiz # 0
               THEN accepted(set_branch(Nav, b.children[horiz], 0))
             ELSE toParent
      ELSE toParent

\* PlayerUpdate without the refresh of selected_location
PlayerUpdateKeepsSelection ==
  /\ move_cooldown' = IF move_cooldown > 0 THEN move_cooldown - 1 ELSE move_cooldown
  /\ flash_timer' = IF flash_timer > 0 THEN flash_timer - 1 ELSE flash_timer
  /\ UNCHANGED <<x, y, current_branch, node_index, selected_location>>

\* Player.update
PlayerUpdate ==
  /\ move_cooldown' = IF move_cooldown > 0 THEN move_cooldown - 1 ELSE move_cooldown
  /\ flash_timer' = IF flash_timer > 0 THEN flash_timer - 1 ELSE flash_timer
  /\ selected_location' =
       IF current_branch # 0 /\ node_index = 1 /\ world[current_branch].location.exists
       THEN current_branch ELSE 0
  /\ UNCHANGED <<x, y, current_branch, node_index>>

\* ------------------------------------------------------------ Game

\* CombatBug.__init__: vulnerable_to = random.randint(0, 2), here digit i of the
\* outcome number d
CombatBug(d, i) == [vulnerable_to |-> (d \div (3 ^ (i - 1))) % 3]

\* The lists of bugs the loop of initialize_combat can build
RandomBugs ==
  { [i \in 1..NumBugs |-> CombatBug(d, i)] : d \in 0..MaxDraw }

\* Game.__init__ with w the tree create_world has built: the player is put
\* on the root branch by set_branch(self.root_branch)
InitWith(w) ==
  /\ world = w
  /\ state = STATE_OVERWORLD
  /\ current_branch = 1
  /\ node_index = 0
  /\ x = nodes(w[1])[1][1]
  /\ y = nodes(w[1])[1][2]
  /\ selected_location = 0
  /\ move_cooldown = 0
  /\ flash_timer = 0
  /\ combat_bugs = <<>>
  /\ current_bug_index = 0
  /\ selected_tool = TOOL_NET
  /\ combat_attempts = 0
  /\ bugs_caught_session = 0
  /\ total_bugs_caught = 0
  /\ combat_animation_timer = 0
  /\ sessions = 0

\* Game.__init__
Init == InitWith(create_world)

\* initialize_combat without "self.selected_tool = TOOL_NET"
initialize_combat_keeps_tool ==
  /\ \E bugs \in RandomBugs : combat_bugs' = bugs
  /\ current_bug_index' = 0
  /\ selected_tool' = selected_tool
  /\ combat_attempts' = 0
  /\ bugs_caught_session' = 0
  /\ combat_animation_timer' = CombatAnimation

\* Game.initialize_combat
initialize_combat ==
  /\ \E bugs \in RandomBugs : combat_bugs' = bugs
  /\ current_bug_index' = 0
  /\ selected_tool' = TOOL_NET
  /\ combat_attempts' = 0
  /\ bugs_caught_session' = 0
  /\ combat_animation_timer' = CombatAnimation

\* the direction an arrow key stands for in the overworld
KeyDirection(key) ==
  CASE key = "K_UP" -> DIR_UP
    [] key = "K_DOWN" -> DIR_DOWN
    [] key = "K_LEFT" -> DIR_LEFT
    [] key = "K_RIGHT" -> DIR_RIGHT

\* OverworldMove without the test of the game state: arrows move the player
\* during a session as well
OverworldMoveAnyState(key) ==
  /\ key \in {"K_UP", "K_DOWN", "K_LEFT", "K_RIGHT"}
  /\ LET r == move(KeyDirection(key))
     IN  /\ x' = r.nav.x
         /\ y' = r.nav.y
         /\ current_branch' = r.nav.current_branch
         /\ node_index' = r.nav.node_index
         /\ move_cooldown' = r.nav.move_cooldown
         /\ flash_timer' = r.nav.flash_timer
  /\ UNCHANGED <<world, state, selected_location, combat, total_bugs_caught, sessions>>

\* handle_events, STATE_OVERWORLD, an arrow key: self.player.move(direction)
OverworldMove(key) ==
  /\ state = STATE_OVERWORLD
  /\ key \in {"K_UP", "K_DOWN", "K_LEFT", "K_RIGHT"}
  /\ LET r == move(KeyDirection(key))
     IN  /\ x' = r.nav.x
         /\ y' = r.nav.y
         /\ current_branch' = r.nav.current_branch
         /\ node_index' = r.nav.node_index
         /\ move_cooldown' = r.nav.move_cooldown
         /\ flash_timer' = r.nav.flash_timer
  /\ UNCHANGED <<world, state, selected_location, combat, total_bugs_caught, sessions>>

\* "if self.player.selected_location" of the K_x branch of the overworld
enter_accepted == selected_location # 0

\* handle_events, STATE_OVERWORLD, K_x: enter the selected location, if any;
\* a run is followed through limit sessions
OverworldEnter(key, limit) ==
  /\ state = STATE_OVERWORLD
  /\ key = "K_x"
  /\ IF enter_accepted
     THEN /\ sessions < limit
          /\ state' = STATE_COMBAT
          /\ world' = [world EXCEPT ![selected_location].location.visited = TRUE]
          /\ initialize_combat
          /\ sessions' = sessions + 1
     ELSE UNCHANGED <<world, state, combat, sessions>>
  /\ UNCHANGED <<player, total_bugs_caught>>

\* combat_end leaving the result screen out
combat_end_to_overworld(idx) ==
  IF idx >= Len(combat_bugs) THEN STATE_OVERWORLD ELSE state

\* combat_end with > for >=
combat_end_off_by_one(idx) ==
  IF idx > Len(combat_bugs) THEN STATE_COMBAT_RESULT ELSE state

\* attack_bug, "move to next bug or end combat": the game state once
\* current_bug_index has become idx
combat_end(idx) ==
  IF idx >= Len(combat_bugs) THEN STATE_COMBAT_RESULT ELSE state

\* on_match counting the catch without moving on to the next bug
on_match_same_bug ==
  [bugs_caught_session |-> bugs_caught_session + 1, combat_attempts |-> 0,
   advance |-> FALSE]

\* on_match without "self.combat_attempts = 0"
on_match_keeps_attempts ==
  [bugs_caught_session |-> bugs_caught_session + 1,
   combat_attempts |-> combat_attempts, advance |-> TRUE]

\* on_match without "self.bugs_caught_session += 1"
on_match_no_catch ==
  [bugs_caught_session |-> bugs_caught_session, combat_attempts |-> 0,
   advance |-> TRUE]

\* attack_bug, the tool is effective: the counters after, and whether the
\* index advances
on_match ==
  [bugs_caught_session |-> bugs_caught_session + 1, combat_attempts |-> 0,
   advance |-> TRUE]

\* on_mismatch that never gives a bug up: the player retries until it matches
on_mismatch_retry ==
  [bugs_caught_session |-> bugs_caught_session, combat_attempts |-> 1,
   advance |-> FALSE]

\* on_mismatch giving a bug up at the third failure instead of the second
on_mismatch_third_failure ==
  LET attempts == combat_attempts + 1
  IN  IF attempts >= 3
      THEN [bugs_caught_session |-> bugs_caught_session, combat_attempts |-> 0,
            advance |-> TRUE]
      ELSE [bugs_caught_session |-> bugs_caught_session,
            combat_attempts |-> attempts, advance |-> FALSE]

\* on_mismatch counting the automatic failure as a catch
on_mismatch_counts_catch ==
  LET attempts == combat_attempts + 1
  IN  IF attempts >= 2
      THEN [bugs_caught_session |-> bugs_caught_session + 1,
            combat_attempts |-> 0, advance |-> TRUE]
      ELSE [bugs_caught_session |-> bugs_caught_session,
            combat_attempts |-> attempts, advance |-> FALSE]

\* attack_bug, the tool is not effective
on_mismatch ==
  LET attempts == combat_attempts + 1
  IN  IF attempts >= 2
      THEN [bugs_caught_session |-> bugs_caught_session, combat_attempts |-> 0,
            advance |-> TRUE]
      ELSE [bugs_caught_session |-> bugs_caught_session,
            combat_attempts |-> attempts, advance |-> FALSE]

\* Game.attack_bug
attack_bug ==
  LET current_bug == combat_bugs[current_bug_index + 1]
      r == IF selected_tool = current_bug.vulnerable_to THEN on_match
           ELSE on_mismatch
  IN  /\ bugs_caught_session' = r.bugs_caught_session
      /\ combat_attempts' = r.combat_attempts
      /\ IF r.advance
         THEN /\ current_bug_index' = current_bug_index + 1
              /\ state' = combat_end(current_bug_index + 1)
         ELSE UNCHANGED <<current_bug_index, state>>

\* handle_events, STATE_COMBAT: input counts once the animation is over
CombatKey(key) ==
  /\ state = STATE_COMBAT
  /\ IF combat_animation_timer <= 0
     THEN CASE key = "K_LEFT" ->
                 /\ selected_tool' = (selected_tool - 1) % 3
                 /\ UNCHANGED <<state, current_bug_index, combat_attempts,
                                bugs_caught_session>>
            [] key = "K_RIGHT" ->
                 /\ selected_tool' = (selected_tool + 1) % 3
                 /\ UNCHANGED <<state, current_bug_index, combat_attempts,
                                bugs_caught_session>>
            [] key = "K_x" ->
                 /\ attack_bug
                 /\ UNCHANGED selected_tool
            [] OTHER ->
                 UNCHANGED <<state, current_bug_index, selected_tool,
                             combat_attempts, bugs_caught_session>>
     ELSE UNCHANGED <<state, current_bug_index, selected_tool, combat_attempts,
                      bugs_caught_session>>
  /\ UNCHANGED <<world, player, combat_bugs, combat_animation_timer,
                 total_bugs_caught, sessions>>

\* ResultKey storing the catches without setting completed
ResultKeyCatchesOnly(key) ==
  /\ state = STATE_COMBAT_RESULT
  /\ IF key = "K_x"
     THEN /\ state' = STATE_OVERWORLD
          /\ IF selected_location # 0
             THEN /\ world' = [world EXCEPT
                       ![selected_location].location.bugs_caught = bugs_caught_session]
                  /\ total_bugs_caught' = total_bugs_caught + bugs_caught_session
             ELSE UNCHANGED <<world, total_bugs_caught>>
     ELSE UNCHANGED <<world, state, total_bugs_caught>>
  /\ UNCHANGED <<player, combat, sessions>>

\* ResultKey completing the location of the branch the player stands on
\* instead of the selected location
ResultKeyCurrentBranch(key) ==
  /\ state = STATE_COMBAT_RESULT
  /\ IF key = "K_x"
     THEN /\ state' = STATE_OVERWORLD
          /\ IF world[current_branch].location.exists
             THEN /\ world' = [world EXCEPT
                       ![current_branch].location.completed = TRUE,
                       ![current_branch].location.bugs_caught = bugs_caught_session]
                  /\ total_bugs_caught' = total_bugs_caught + bugs_caught_session
             ELSE UNCHANGED <<world, total_bugs_caught>>
     ELSE UNCHANGED <<world, state, total_bugs_caught>>
  /\ UNCHANGED <<player, combat, sessions>>

\* handle_events, STATE_COMBAT_RESULT: K_x returns to the overworld
ResultKey(key) ==
  /\ state = STATE_COMBAT_RESULT
  /\ IF key = "K_x"
     THEN /\ state' = STATE_OVERWORLD
          /\ IF selected_location # 0
             THEN /\ world' = [world EXCEPT
                       ![selected_location].location.completed = TRUE,
                       ![selected_location].location.bugs_caught = bugs_caught_session]
                  /\ total_bugs_caught' = total_bugs_caught + bugs_caught_session
             ELSE UNCHANGED <<world, total_bugs_caught>>
     ELSE UNCHANGED <<world, state, total_bugs_caught>>
  /\ UNCHANGED <<player, combat, sessions>>

\* handle_events, STATE_OVERWORLD, a key the overworld has no branch for
OverworldOtherKey(key) ==
  /\ state = STATE_OVERWORLD
  /\ key \notin {"K_UP", "K_DOWN", "K_LEFT", "K_RIGHT", "K_x"}
  /\ UNCHANGED vars

\* One KEYDOWN event of the loop of Game.handle_events
KeyDown(key, limit) ==
  \/ OverworldMove(key)
  \/ OverworldEnter(key, limit)
  \/ OverworldOtherKey(key)
  \/ CombatKey(key)
  \/ ResultKey(key)

\* Game.update, the end of a frame
Update ==
  /\ IF state = STATE_OVERWORLD
     THEN /\ PlayerUpdate
          /\ UNCHANGED combat_animation_timer
     ELSE IF state = STATE_COMBAT
     THEN /\ combat_animation_timer' =
               IF combat_animation_timer > 0 THEN combat_animation_timer - 1
               ELSE combat_animation_timer
          /\ UNCHANGED player
     ELSE UNCHANGED <<player, combat_animation_timer>>
  /\ UNCHANGED <<world, state, combat_bugs, current_bug_index, selected_tool,
                 combat_attempts, bugs_caught_session, total_bugs_caught, sessions>>

\* Game.run: the events of a frame one by one, then update; runs are followed
\* through MaxSessions combat sessions
Next ==
  \/ \E key \in Keys : KeyDown(key, MaxSessions)
  \/ Update

Spec == Init /\ [][Next]_vars

\* The tree of create_world and others built by the same operations: a
\* root from (20, center_y) to (60, center_y), with or without a location, and
\* MaxChildren children added in order, each ending 20 to the right and at one
\* of the heights ChildOffsets from the root's end (5 is the first offset
\* that is not "roughly horizontal")
ChildOffsets == {-25, -4, 0, 5}

RECURSIVE add_children(_, _)
\* add_child on the root for each offset of the sequence dys, in order
add_children(w, dys) ==
  IF dys = <<>> THEN w
  ELSE add_children(add_child(w, 1, 80, w[1].end_y + Head(dys)), Tail(dys))

Worlds ==
  LET center_y == VIRTUAL_HEIGHT \div 2
      root == <<Branch(20, center_y, 60, center_y, 0)>>
  IN  {create_world} \cup
      { add_children(r, dys) :
          r \in {root, add_location(root, 1, "Tutorial")},
          dys \in [1..MaxChildren -> ChildOffsets] }

\* Game.__init__ and Game.run on each of these trees
InitShapes == \E w \in Worlds : InitWith(w)

SpecShapes == InitShapes /\ [][Next]_vars

\* Game.run followed through one session more, for what a session leaves to
\* the next one
NextLong ==
  \/ \E key \in Keys : KeyDown(key, MaxSessions + 1)
  \/ Update

SpecLong == Init /\ [][NextLong]_vars

\* ------------------------------------------------------------ properties

Directions == {DIR_UP, DIR_RIGHT, DIR_DOWN, DIR_LEFT}

\* the player stands on a location: node 1 of a branch that owns a Location
OnLocation ==
  current_branch # 0 /\ node_index = 1 /\ world[current_branch].location.exists

\* the step is an attack (K_x in combat, animation over) with the tool the
\* current bug is vulnerable to
MatchingAttack ==
  /\ state = STATE_COMBAT
  /\ combat_animation_timer <= 0
  /\ selected_tool = combat_bugs[current_bug_index + 1].vulnerable_to
  /\ CombatKey("K_x")

\* the step is an attack with a tool the current bug is not vulnerable to
MissingAttack ==
  /\ state = STATE_COMBAT
  /\ combat_animation_timer <= 0
  /\ selected_tool # combat_bugs[current_bug_index + 1].vulnerable_to
  /\ CombatKey("K_x")

\* C1: in the overworld, at any moment an input can be processed, an enter
\* input is accepted (leads to Combat) if and only if the player stands on a
\* location at that moment.
C1_EnterIffOnLocation ==
  state = STATE_OVERWORLD => (enter_accepted <=> OnLocation)

\* C2: the game state changes only Overworld -> Combat by an enter input,
\* Combat -> CombatResult inside an attack, CombatResult -> Overworld by a
\* confirm input.
C2_LegalTransitions ==
  [][state' # state =>
       \/ /\ state = STATE_OVERWORLD /\ state' = STATE_COMBAT
          /\ OverworldEnter("K_x", sessions + 1)
       \/ /\ state = STATE_COMBAT /\ state' = STATE_COMBAT_RESULT
          /\ combat_animation_timer <= 0
          /\ CombatKey("K_x")
       \/ /\ state = STATE_COMBAT_RESULT /\ state' = STATE_OVERWORLD
          /\ ResultKey("K_x")]_vars

\* a whole round Overworld -> Combat -> CombatResult -> Overworld was made
C2_Witness ==
  /\ state = STATE_OVERWORLD
  /\ \E b \in 1..Len(world) : world[b].location.completed

\* C3 as stated: an attack with the correct tool never decrements the attempt
\* counter (the counter after is >= the counter before).
C3_MatchNeverDecrements ==
  [][MatchingAttack => combat_attempts' >= combat_attempts]_vars

\* C3 amended: an attack with the correct tool resets the attempt counter to
\* 0, so it never increments it, and decrements it from 1 to 0 after one
\* mismatch on the bug.
C3_MatchResetsAttempts ==
  [][MatchingAttack =>
       /\ combat_attempts' = 0
       /\ combat_attempts' <= combat_attempts
       /\ (combat_attempts = 1 => combat_attempts' < combat_attempts)]_vars

\* the first bug, vulnerable to a tool the session does not start with, has
\* been caught: the attempt counter is 0 after the catch
C3_Witness ==
  /\ state = STATE_COMBAT
  /\ current_bug_index = 1
  /\ bugs_caught_session = 1
  /\ combat_attempts = 0
  /\ combat_bugs[1].vulnerable_to # TOOL_NET
  /\ selected_tool = combat_bugs[1].vulnerable_to

\* C4: an attack with the correct tool increases currentIndex by exactly 1 and
\* caughtThisSession by exactly 1, and moves the game to CombatResult exactly
\* when the new currentIndex is 6 (otherwise the state stays Combat).
C4_MatchAdvancesAndCatches ==
  [][MatchingAttack =>
       /\ current_bug_index' = current_bug_index + 1
       /\ bugs_caught_session' = bugs_caught_session + 1
       /\ (state' = STATE_COMBAT_RESULT <=> current_bug_index' = 6)
       /\ (current_bug_index' # 6 => state' = STATE_COMBAT)]_vars

\* six catches ended the session
C4_Witness ==
  /\ state = STATE_COMBAT_RESULT
  /\ current_bug_index = 6
  /\ bugs_caught_session = 6

\* C5: the first incorrect attack on a bug leaves currentIndex and
\* caughtThisSession unchanged and sets attemptsOnCurrent to 1; the second
\* increases currentIndex by exactly 1, leaves caughtThisSession unchanged and
\* resets attemptsOnCurrent to 0, ending in CombatResult iff the index is 6.
C5_MismatchOnceThenAdvance ==
  [][MissingAttack =>
       /\ combat_attempts \in {0, 1}
       /\ bugs_caught_session' = bugs_caught_session
       /\ combat_attempts = 0 =>
            /\ current_bug_index' = current_bug_index
            /\ combat_attempts' = 1
            /\ state' = STATE_COMBAT
       /\ combat_attempts = 1 =>
            /\ current_bug_index' = current_bug_index + 1
            /\ combat_attempts' = 0
            /\ (state' = STATE_COMBAT_RESULT <=> current_bug_index' = 6)
            /\ (current_bug_index' # 6 => state' = STATE_COMBAT)]_vars

\* every bug of a session was given up after two mismatches
C5_Witness ==
  /\ state = STATE_COMBAT_RESULT
  /\ current_bug_index = 6
  /\ bugs_caught_session = 0

\* C6: Combat implies 0 <= currentIndex <= 5, CombatResult implies
\* currentIndex = 6, and Combat -> CombatResult happens in exactly the step
\* that makes currentIndex reach 6.
C6_IndexBoundsAndEnd ==
  /\ [](/\ state = STATE_COMBAT =>
             /\ 0 <= current_bug_index /\ current_bug_index <= 5
             /\ current_bug_index < Len(combat_bugs)
        /\ state = STATE_COMBAT_RESULT => current_bug_index = 6)
  /\ [][(state = STATE_COMBAT /\ state' = STATE_COMBAT_RESULT)
          <=> (current_bug_index # 6 /\ current_bug_index' = 6)]_vars

\* the last bug of a session has been dealt with
C6_Witness ==
  /\ state = STATE_COMBAT_RESULT
  /\ current_bug_index = 6
  /\ bugs_caught_session \in 1..5

\* C7: every Overworld -> Combat transition sets visited on the selected
\* location and leaves exactly 6 bugs, currentIndex 0, attemptsOnCurrent 0,
\* caughtThisSession 0 and selectedTool Net, whatever an earlier session left;
\* the running total is not reset.
C7_EnterStartsFreshSession ==
  [][(state = STATE_OVERWORLD /\ state' = STATE_COMBAT) =>
       /\ selected_location # 0
       /\ world' = [world EXCEPT ![selected_location].location.visited = TRUE]
       /\ world[selected_location].location.exists
       /\ Len(combat_bugs') = 6
       /\ current_bug_index' = 0
       /\ combat_attempts' = 0
       /\ bugs_caught_session' = 0
       /\ selected_tool' = TOOL_NET
       /\ total_bugs_caught' = total_bugs_caught]_vars

\* a second session has just started after one that caught bugs
C7_Witness ==
  /\ state = STATE_COMBAT
  /\ combat_animation_timer = CombatAnimation
  /\ total_bugs_caught > 0
  /\ bugs_caught_session = 0
  /\ selected_tool = TOOL_NET
  /\ sessions = 2

\* C8: every CombatResult -> Overworld transition sets completed and
\* bugsCaught = caughtThisSession on exactly the location the Overworld ->
\* Combat transition of this session marked visited, adds caughtThisSession to
\* the running total and changes no other location's fields.  The location of
\* the session is the selected location: the entering step marks it, no step
\* in Combat or CombatResult changes the selection, the confirm step writes it.
C8_ConfirmCompletesEnteredLocation ==
  [][/\ (state = STATE_OVERWORLD /\ state' = STATE_COMBAT) =>
          /\ selected_location' = selected_location
          /\ world'[selected_location].location.visited
     /\ state # STATE_OVERWORLD =>
          /\ selected_location' = selected_location
          /\ selected_location # 0
          /\ world[selected_location].location.exists
          /\ world[selected_location].location.visited
     /\ (state = STATE_COMBAT_RESULT /\ state' = STATE_OVERWORLD) =>
          /\ world' = [world EXCEPT
               ![selected_location].location.completed = TRUE,
               ![selected_location].location.bugs_caught = bugs_caught_session]
          /\ total_bugs_caught' = total_bugs_caught + bugs_caught_session
          /\ ResultKey("K_x")
     /\ (state = STATE_COMBAT_RESULT /\ state' = STATE_COMBAT_RESULT) =>
          UNCHANGED <<world, total_bugs_caught>>]_vars

\* a session with catches was confirmed while another location was completed
\* before
C8_Witness ==
  /\ state = STATE_OVERWORLD
  /\ \E a, b \in 1..Len(world) :
       /\ a # b
       /\ world[a].location.completed
       /\ world[b].location.completed
       /\ world[b].location.bugs_caught > 0
       /\ total_bugs_caught
            = world[a].location.bugs_caught + world[b].location.bugs_caught

\* C9: every rejected move (cooldown active, no rule for the direction, or
\* the location gate) leaves currentBranch, nodeIndex, the position,
\* moveCooldownFrames and feedbackFlashFrames unchanged.
C9_RejectedMoveChangesNothing ==
  \A d \in Directions : ~move(d).ok => move(d).nav = Nav

\* moves are refused for each of the three reasons in reachable states: here
\* the cooldown refuses a move that the rules would allow
C9_Witness ==
  /\ state = STATE_OVERWORLD
  /\ move_cooldown > 0
  /\ node_index = 1
  /\ current_branch = 2
  /\ \A d \in Directions : ~move(d).ok

\* C10: with no cooldown, from node 1 of a branch whose location is not
\* visited, RIGHT fails and leaves the navigator unchanged, whatever children
\* the branch has.
C10_GateRejectsAdvance ==
  (/\ move_cooldown = 0
   /\ node_index = 1
   /\ world[current_branch].location.exists
   /\ ~world[current_branch].location.visited)
  => (~move(DIR_RIGHT).ok /\ move(DIR_RIGHT).nav = Nav)

\* the player waits at an unvisited location whose branch has a child that
\* continues horizontally
C10_Witness ==
  /\ state = STATE_OVERWORLD
  /\ move_cooldown = 0
  /\ node_index = 1
  /\ world[current_branch].location.exists
  /\ ~world[current_branch].location.visited
  /\ \E i \in 1..Len(world[current_branch].children) :
       HorizontalMatch(world[current_branch].children[i])

\* ------------------------------------------------------------ navigation

\* the children of the current branch, in declared order
Children == world[current_branch].children

\* the navigator stands on node idx of branch c, at that node's coordinates
StandsOn(n, c, idx) ==
  /\ n.current_branch = c
  /\ n.node_index = idx
  /\ <<n.x, n.y>> = nodes(world[c])[idx + 1]

\* child i of the current branch ends less than 5 above or below the end of
\* the current branch
Level(i) == Abs(world[Children[i]].end_y - world[current_branch].end_y) < 5

\* C11: with no cooldown, from node 1 of a branch whose location is visited or
\* absent, RIGHT puts the player on node 0 of the first child in declared
\* order that ends less than 5 from the current end (never a later one), and
\* fails leaving the navigator unchanged when no child does.
C11_AdvanceTakesFirstLevelChild ==
  (/\ move_cooldown = 0
   /\ node_index = 1
   /\ (world[current_branch].location.exists
         => world[current_branch].location.visited))
  => /\ \A i \in 1..Len(Children) :
          (Level(i) /\ \A j \in 1..(i - 1) : ~Level(j))
          => (move(DIR_RIGHT).ok /\ StandsOn(move(DIR_RIGHT).nav, Children[i], 0))
     /\ (\A i \in 1..Len(Children) : ~Level(i))
          => (~move(DIR_RIGHT).ok /\ move(DIR_RIGHT).nav = Nav)

\* the player is ready to advance from a visited location whose branch has two
\* children that both continue level, the second ending elsewhere than the first
C11_Witness ==
  /\ state = STATE_OVERWORLD
  /\ move_cooldown = 0
  /\ node_index = 1
  /\ world[current_branch].location.visited
  /\ Len(Children) = 2
  /\ Level(1) /\ Level(2)
  /\ world[Children[1]].end_y # world[Children[2]].end_y
  /\ move(DIR_RIGHT).nav.current_branch = Children[1]

\* C12: with no cooldown, RIGHT from node 0 lands on node 1 of the same branch
\* and LEFT from node 1 lands on node 0 of the same branch, whatever children
\* and location the branch has.
C12_AlongTheBranch ==
  move_cooldown = 0
  => /\ node_index = 0
          => (move(DIR_RIGHT).ok /\ StandsOn(move(DIR_RIGHT).nav, current_branch, 1))
     /\ node_index = 1
          => (move(DIR_LEFT).ok /\ StandsOn(move(DIR_LEFT).nav, current_branch, 0))

\* the player is ready to move at the end of a branch whose location is not
\* visited and which has two children, the first continuing level
C12_Witness ==
  /\ state = STATE_OVERWORLD
  /\ move_cooldown = 0
  /\ node_index = 1
  /\ Gate(current_branch)
  /\ Len(Children) = 2
  /\ Level(1)
  /\ move(DIR_LEFT).ok

\* end.y - start.y of child i of the current branch
Slope(i) == world[Children[i]].end_y - world[Children[i]].start_y

\* direction d asks for child i: UP for a negative slope, DOWN for a positive
Asks(d, i) ==
  \/ d = DIR_UP /\ Slope(i) < 0
  \/ d = DIR_DOWN /\ Slope(i) > 0

\* C13: with no cooldown, from node 1, UP puts the player on node 0 of the
\* first child with end.y - start.y negative and DOWN on node 0 of the first
\* child with it positive; with no such child the input is rejected and the
\* navigator is unchanged.
C13_VerticalTakesFirstSlopedChild ==
  (move_cooldown = 0 /\ node_index = 1)
  => \A d \in {DIR_UP, DIR_DOWN} :
       /\ \A i \in 1..Len(Children) :
            (Asks(d, i) /\ \A j \in 1..(i - 1) : ~Asks(d, j))
            => (move(d).ok /\ StandsOn(move(d).nav, Children[i], 0))
       /\ (\A i \in 1..Len(Children) : ~Asks(d, i))
            => (~move(d).ok /\ move(d).nav = Nav)

\* the player is ready to move at the end of a branch with two ascending
\* children that end at different heights, and none descending
C13_Witness ==
  /\ state = STATE_OVERWORLD
  /\ move_cooldown = 0
  /\ node_index = 1
  /\ Len(Children) = 2
  /\ Slope(1) < 0 /\ Slope(2) < 0 /\ Slope(1) # Slope(2)
  /\ move(DIR_UP).nav.current_branch = Children[1]
  /\ ~move(DIR_DOWN).ok

\* C14: with no cooldown, LEFT from node 0 puts the player on node 1 of the
\* parent branch when there is one and fails, changing nothing, on the root;
\* and every move that enters another branch from node 1 enters, at node 0, a
\* branch whose parent is the branch left, so that the retreat from there
\* returns to exactly the node 1 that was left.
C14_RetreatToParentEnd ==
  /\ (move_cooldown = 0 /\ node_index = 0)
     => IF world[current_branch].parent # 0
        THEN /\ move(DIR_LEFT).ok
             /\ StandsOn(move(DIR_LEFT).nav, world[current_branch].parent, 1)
        ELSE ~move(DIR_LEFT).ok /\ move(DIR_LEFT).nav = Nav
  /\ \A d \in Directions :
       (node_index = 1 /\ move(d).ok /\ move(d).nav.current_branch # current_branch)
       => /\ world[move(d).nav.current_branch].parent = current_branch
          /\ move(d).nav.node_index = 0

\* the cooldown of the entry has run out at the start of a branch two levels
\* below the root, and LEFT leads back to the end of its parent
C14_Witness ==
  /\ state = STATE_OVERWORLD
  /\ move_cooldown = 0
  /\ node_index = 0
  /\ world[current_branch].parent # 0
  /\ world[world[current_branch].parent].parent # 0
  /\ move(DIR_LEFT).nav.current_branch = world[current_branch].parent
  /\ move(DIR_LEFT).nav.node_index = 1

\* branch, node and coordinates of the player
Position == <<current_branch, node_index, x, y>>

\* C15: a move that changes the position sets the cooldown to 15; every move
\* attempted while the cooldown is positive is rejected; and the cooldown
\* falls only in a tick, so that among the inputs handled between two ticks
\* at most one move succeeds.
C15_CooldownOneMovePerTick ==
  /\ [](\A d \in Directions :
          /\ move(d).ok => move(d).nav.move_cooldown = 15
          /\ move_cooldown > 0 => (~move(d).ok /\ move(d).nav = Nav))
  /\ [][/\ Position' # Position => (move_cooldown = 0 /\ move_cooldown' = 15)
        /\ move_cooldown' < move_cooldown => (Update /\ Position' = Position)]_vars

\* a move has just succeeded and every further move of the same tick is refused
C15_Witness ==
  /\ state = STATE_OVERWORLD
  /\ move_cooldown = 15
  /\ flash_timer = 5
  /\ current_branch = 3
  /\ node_index = 0
  /\ \A d \in Directions : ~move(d).ok

\* C16: every tick in which the cooldown is positive lowers it by one, in
\* every game state (so that 15 ticks after a move it is 0 even when the
\* player entered and left combat in between).
C16_CooldownFallsEveryTick ==
  [][(Update /\ move_cooldown > 0) => move_cooldown' = move_cooldown - 1]_vars

\* ------------------------------------------------------------ one session played through

\* the tool the current bug is vulnerable to
VulnerableTool == combat_bugs[current_bug_index + 1].vulnerable_to

\* Game.run driven by the inputs of a perfect first session: advance, one
\* tick, enter, wait for the intro, then for each bug select its tool and
\* attack, and confirm the result
NextPerfect ==
  \/ sessions = 0 /\ node_index = 0 /\ OverworldMove("K_RIGHT")
  \/ sessions = 0 /\ node_index = 1 /\ move_cooldown = MoveCooldown /\ Update
  \/ sessions = 0 /\ move_cooldown < MoveCooldown /\ OverworldEnter("K_x", MaxSessions)
  \/ state = STATE_COMBAT /\ combat_animation_timer > 0 /\ Update
  \/ \E key \in {"K_LEFT", "K_RIGHT"} :
       /\ state = STATE_COMBAT
       /\ combat_animation_timer <= 0
       /\ selected_tool # VulnerableTool
       /\ CombatKey(key)
  \/ MatchingAttack
  \/ ResultKey("K_x")

SpecPerfect == Init /\ [][NextPerfect]_vars

\* the perfect session is over: back in the overworld after the confirm
PerfectDone == state = STATE_OVERWORLD /\ sessions = 1

\* C17: from the initial state an advance reaches node 1 of the root; an
\* enter after the next tick starts Combat; six consecutive accepted attacks
\* with the tool the current bug is vulnerable to give caughtThisSession = 6
\* and CombatResult exactly after the sixth; the confirm then gives Overworld
\* with the root's location completed and its bugsCaught = 6. Each step of
\* this run can be taken until the confirm is done.
C17_PerfectFirstSession ==
  /\ ~PerfectDone => ENABLED NextPerfect
  /\ (state = STATE_OVERWORLD /\ sessions = 0)
     => /\ current_branch = 1
        /\ node_index = 0 => (move_cooldown = 0 /\ ~enter_accepted)
        /\ node_index = 1 => (move_cooldown = 15 \/ (move_cooldown = 14 /\ enter_accepted))
        /\ ~world[1].location.completed
  /\ state = STATE_COMBAT
     => /\ current_bug_index < 6
        /\ bugs_caught_session = current_bug_index
        /\ combat_attempts = 0
  /\ state = STATE_COMBAT_RESULT
     => /\ current_bug_index = 6
        /\ bugs_caught_session = 6
  /\ PerfectDone
     => /\ StandsOn(Nav, 1, 1)
        /\ world[1].location.completed
        /\ world[1].location.bugs_caught = 6

\* the confirm of the perfect session has been handled
C17_Witness ==
  /\ PerfectDone
  /\ world[1].location.completed
  /\ world[1].location.bugs_caught = 6
  /\ total_bugs_caught = 6
  /\ bugs_caught_session = 6

\* C18: on every tree the construction operations build, while the location
\* of a branch is not visited no move of any direction takes the player from
\* node 1 of that branch into one of its children, ascending and descending
\* children included.
C18_GateHoldsInEveryDirection ==
  (node_index = 1 /\ Gate(current_branch))
  => \A d \in Directions : \A i \in 1..Len(Children) :
       move(d).nav.current_branch # Children[i]

\* the keys of the four directions
Arrows == {"K_UP", "K_DOWN", "K_LEFT", "K_RIGHT"}

\* C19: in Combat and CombatResult no input and no tick changes the branch,
\* the node or the coordinates of the player; in Combat nothing but the intro
\* timer changes while that timer is positive, and an arrow key changes
\* nothing but the selected tool; in CombatResult the only step with an effect
\* is the confirm; in the Overworld an arrow key changes none of selectedTool,
\* currentIndex, attemptsOnCurrent and caughtThisSession.
C19_StatesKeepToTheirOwnFields ==
  [][/\ state # STATE_OVERWORLD => Position' = Position
     /\ (state = STATE_COMBAT /\ combat_animation_timer > 0)
        => UNCHANGED <<world, state, player, combat_bugs, current_bug_index,
                       selected_tool, combat_attempts, bugs_caught_session,
                       total_bugs_caught, sessions>>
     /\ \A key \in Arrows :
          (state = STATE_COMBAT /\ KeyDown(key, MaxSessions))
          => UNCHANGED <<world, state, player, combat_bugs, current_bug_index,
                         combat_attempts, bugs_caught_session,
                         combat_animation_timer, total_bugs_caught, sessions>>
     /\ state = STATE_COMBAT_RESULT => (ResultKey("K_x") /\ state' = STATE_OVERWORLD)
     /\ \A key \in Arrows :
          (state = STATE_OVERWORLD /\ KeyDown(key, MaxSessions))
          => UNCHANGED <<selected_tool, current_bug_index, combat_attempts,
                         bugs_caught_session>>
    ]_vars

\* a session is on with the intro over, a tool other than the first selected
\* by the arrows, the cooldown run out and the player still on the location
C19_Witness ==
  /\ state = STATE_COMBAT
  /\ combat_animation_timer = 0
  /\ selected_tool = TOOL_MAGNIFIER
  /\ current_bug_index = 0
  /\ move_cooldown = 0
  /\ StandsOn(Nav, selected_location, 1)

\* C20: nodeIndex is 0 or 1, and the stored (x, y) is the start point of the
\* current branch when nodeIndex is 0 and its end point when nodeIndex is 1,
\* after every successful move of every kind.
C20_PositionIsTheNode ==
  /\ node_index \in {0, 1}
  /\ node_index = 0
       => <<x, y>> = <<world[current_branch].start_x, world[current_branch].start_y>>
  /\ node_index = 1
       => <<x, y>> = <<world[current_branch].end_x, world[current_branch].end_y>>

\* the player has gone down into a child two levels below the root and along
\* it to its end
C20_Witness ==
  /\ state = STATE_OVERWORLD
  /\ node_index = 1
  /\ world[current_branch].parent # 0
  /\ world[world[current_branch].parent].parent # 0
  /\ world[current_branch].end_y > world[current_branch].start_y
  /\ <<x, y>> = <<world[current_branch].end_x, world[current_branch].end_y>>

\* ------------------------------------------------------------ session counters

\* C21: between input events attemptsOnCurrent is 0 or 1; it becomes 1 only by
\* a mismatch on the current bug when none was counted for it before; and it
\* is 0 whenever currentIndex has just changed or a session has just started.
C21_AttemptsZeroOrOne ==
  /\ [](combat_attempts \in {0, 1})
  /\ [][/\ (combat_attempts' = 1 /\ combat_attempts # 1)
           => (MissingAttack /\ combat_attempts = 0
               /\ current_bug_index' = current_bug_index)
        /\ current_bug_index' # current_bug_index => combat_attempts' = 0
        /\ (state = STATE_OVERWORLD /\ state' = STATE_COMBAT)
           => (combat_attempts' = 0 /\ current_bug_index' = 0)]_vars

\* one mismatch is counted against a bug later than the first, after an
\* earlier bug was given up
C21_Witness ==
  /\ state = STATE_COMBAT
  /\ combat_attempts = 1
  /\ current_bug_index > 0
  /\ bugs_caught_session < current_bug_index

\* C22: 0 <= caughtThisSession <= currentIndex <= 6 in every reachable state,
\* so the bugsCaught stored in every location is between 0 and 6 and the
\* running total grows by at most 6, and only when a session is confirmed.
C22_CatchesBounded ==
  /\ [](/\ 0 <= bugs_caught_session
        /\ bugs_caught_session <= current_bug_index
        /\ current_bug_index <= 6
        /\ \A b \in 1..Len(world) : world[b].location.bugs_caught \in 0..6
        /\ total_bugs_caught <= 6 * sessions)
  /\ [][/\ total_bugs_caught' - total_bugs_caught \in 0..6
        /\ total_bugs_caught' # total_bugs_caught
           => (state = STATE_COMBAT_RESULT /\ state' = STATE_OVERWORLD)]_vars

\* two sessions were confirmed, one with every bug caught and one with some
\* bugs given up
C22_Witness ==
  /\ state = STATE_OVERWORLD
  /\ sessions = 2
  /\ \E a, b \in 1..Len(world) :
       /\ world[a].location.bugs_caught = 6
       /\ world[b].location.bugs_caught \in 1..5
       /\ total_bugs_caught = 6 + world[b].location.bugs_caught

\* C23: for every location completed implies visited; in the Overworld
\* visited equals completed for every location; a location is visited and not
\* completed only in Combat or CombatResult, and then it is the location the
\* running session was started at.
C23_VisitedAndCompleted ==
  \A b \in 1..Len(world) :
    LET l == world[b].location
    IN  /\ l.completed => l.visited
        /\ state = STATE_OVERWORLD => (l.visited <=> l.completed)
        /\ (l.visited /\ ~l.completed)
           => /\ state \in {STATE_COMBAT, STATE_COMBAT_RESULT}
              /\ l.exists
              /\ selected_location = b

\* a first session runs at a location while another location is completed
C23_Witness ==
  /\ state = STATE_COMBAT
  /\ selected_location # 0
  /\ world[selected_location].location.visited
  /\ ~world[selected_location].location.completed
  /\ \E b \in 1..Len(world) : world[b].location.completed

\* ------------------------------------------------------------ termination

\* Game.run with a tick in every frame (Game.update is called once per
\* iteration of the loop) and a player who keeps attacking: an attack that
\* stays possible is eventually made
SpecFair ==
  /\ Init
  /\ [][Next]_vars
  /\ WF_vars(Update)
  /\ WF_vars(CombatKey("K_x"))

\* the step is an accepted attack: K_x in combat once the intro is over
AcceptedAttack == MatchingAttack \/ MissingAttack

\* the most accepted attacks the rest of the session can take: two for each
\* bug still to come, less the mismatch already counted for the current one
AttacksLeft == 2 * (NumBugs - current_bug_index) - combat_attempts

\* C24: every session ends. It starts with currentIndex 0 and up to 12 attacks
\* left, every accepted attack moves currentIndex on by at most 1 and takes at
\* least 1 from the attacks left, and CombatResult is entered exactly when
\* currentIndex is 6 with no attack left: so CombatResult is reached after at
\* least 6 and at most 12 accepted attacks, whatever the vulnerabilities and
\* the tools selected. With a player who keeps attacking, Combat always
\* leads to CombatResult.
C24_SessionTerminates ==
  /\ [](/\ state = STATE_COMBAT => (AttacksLeft \in 1..12 /\ current_bug_index < 6)
        /\ state = STATE_COMBAT_RESULT => (AttacksLeft = 0 /\ current_bug_index = 6))
  /\ [][/\ (state = STATE_OVERWORLD /\ state' = STATE_COMBAT)
           => (AttacksLeft' = 12 /\ current_bug_index' = 0)
        /\ AcceptedAttack
           => /\ AttacksLeft' < AttacksLeft
              /\ current_bug_index' \in {current_bug_index, current_bug_index + 1}
        /\ (state = STATE_COMBAT /\ ~AcceptedAttack)
           => (state' = STATE_COMBAT /\ AttacksLeft' = AttacksLeft
               /\ current_bug_index' = current_bug_index)]_vars
  /\ (state = STATE_COMBAT) ~> (state = STATE_COMBAT_RESULT)

\* eleven attacks were made and none caught a bug: the twelfth ends the
\* session whatever the tool
C24_Witness ==
  /\ state = STATE_COMBAT
  /\ current_bug_index = 5
  /\ combat_attempts = 1
  /\ bugs_caught_session = 0
  /\ AttacksLeft = 1

\* ------------------------------------------------------------ a tour of the world

\* the branches of create_world that own a location
Locations == {b \in 1..Len(create_world) : create_world[b].location.exists}

\* every location of the world is completed
AllCompleted == \A b \in Locations : world[b].location.completed

\* the location the tour makes for: the first, in the order of creation, that
\* is not completed (0 when none is left)
Target ==
  IF AllCompleted THEN 0
  ELSE CHOOSE b \in Locations :
         /\ ~world[b].location.completed
         /\ \A c \in Locations : ~world[c].location.completed => b <= c

RECURSIVE IsUnder(_, _)
\* branch t is branch b or lies below it, following Branch.parent
IsUnder(t, b) ==
  IF t = b THEN TRUE
  ELSE IF world[t].parent = 0 THEN FALSE
  ELSE IsUnder(world[t].parent, b)

\* the player stands on the location the tour makes for
AtTarget == current_branch = Target /\ node_index = 1

\* the key pressed on the way to Target: along the branch and into the child
\* that leads to it (up, down or straight on, as that child is drawn), and
\* back towards the parent when Target lies elsewhere
TourKey ==
  IF IsUnder(Target, current_branch)
  THEN IF node_index = 0 THEN "K_RIGHT"
       ELSE LET c == CHOOSE c \in 1..Len(world) :
                       world[c].parent = current_branch /\ IsUnder(Target, c)
            IN  IF world[c].end_y < world[c].start_y THEN "K_UP"
                ELSE IF world[c].end_y > world[c].start_y THEN "K_DOWN"
                ELSE "K_RIGHT"
  ELSE "K_LEFT"

\* Game.run driven by a player who completes the locations one after the
\* other: walk to the next one (waiting out the cooldown), wait for it to be
\* selected, enter, play the session with the right tools, confirm
NextTour ==
  \/ /\ state = STATE_OVERWORLD /\ ~AllCompleted
     /\ IF AtTarget THEN selected_location # Target ELSE move_cooldown > 0
     /\ Update
  \/ /\ state = STATE_OVERWORLD /\ ~AllCompleted
     /\ ~AtTarget /\ move_cooldown = 0
     /\ OverworldMove(TourKey)
  \/ /\ ~AllCompleted
     /\ AtTarget /\ selected_location = Target
     /\ OverworldEnter("K_x", Cardinality(Locations))
  \/ state = STATE_COMBAT /\ combat_animation_timer > 0 /\ Update
  \/ /\ state = STATE_COMBAT
     /\ combat_animation_timer <= 0
     /\ selected_tool # VulnerableTool
     /\ CombatKey("K_RIGHT")
  \/ MatchingAttack
  \/ ResultKey("K_x")

\* the tour with a player and a loop that do not stop
SpecTour == Init /\ [][NextTour]_vars /\ WF_vars(NextTour)

\* C25: the world of create_world can be completed: there is a sequence of
\* inputs and ticks from the initial state after which Tutorial, Forest,
\* Pond, Mountain and Cave are all completed. The tour is such a sequence:
\* every run of it, whatever bugs are drawn, reaches that state, and no
\* location is completed out of turn on the way.
C25_WorldCompletable ==
  /\ <>[]AllCompleted
  /\ [](Cardinality(Locations) = 5)
  /\ [](\A b \in Locations : world[b].location.completed => (Target = 0 \/ b < Target))

\* the five locations are completed, the last of them the Cave
C25_Witness ==
  /\ state = STATE_OVERWORLD
  /\ \A b \in 1..Len(world) : world[b].location.exists => world[b].location.completed
  /\ {world[b].location.name : b \in Locations}
       = {"Tutorial", "Forest", "Pond", "Mountain", "Cave"}
  /\ sessions = 5
  /\ world[current_branch].location.name = "Cave"
  /\ node_index = 1

====
